---- MODULE Spec2Model ----
(***************************************************************************)
(* State-machine model of ips4o_sm::StateMachine                           *)
(* (src/ips4o_state_machine.hpp): an explicit task stack over one shared   *)
(* buffer, one handler per task state.                                     *)
(*                                                                         *)
(* Elements are pairs <<key, tag>>.  The comparator orders by key only, so *)
(* elements with the same key and different tags are comparator-equal but  *)
(* distinguishable (a strict weak order that is not a total order).        *)
(* Iterators are 0-based offsets into the buffer; a range is [begin, end). *)
(***************************************************************************)
EXTENDS Integers, Sequences, FiniteSets

VARIABLES
    buf,      \* the caller's buffer the iterators point into
    stack,    \* task_stack_ : Seq(Task), top of the stack = last element
    thrown,   \* TRUE once the comparator has raised out of step()
    origBag,  \* ghost: the multiset of elements in the buffer at construction
    origShape,\* ghost: was the input non-decreasing, was it strictly descending
    nsteps,   \* ghost: number of step() calls so far, saturating at StepCap
    last      \* ghost: what the last step() did, and the range it dispatched on

vars == <<buf, stack, thrown, origBag, origShape, nsteps, last>>

----------------------------------------------------------------------------
(* Bounds of the model *)

MaxLen == 6        \* longest input range over the keys 1..MaxKey
MaxKey == 3        \* keys of these inputs
MaxLongLen == 8    \* longest two-valued input range, longest descending ramp
MaxTagLen == 4     \* inputs up to this length also come with distinct tags
StepCap == 3       \* nsteps counts 0, 1, 2, "3 or more"
MaxLiveLen == 5    \* longest input range of the specification with fairness

----------------------------------------------------------------------------
(* Config: the size policy injected as a template parameter *)

kBaseCaseSize == 1
kBaseCaseMultiplier == 3
kLogBuckets == 8
OversampleF == 70     \* percent; a stride of 2 from ranges of 8 elements on

RECURSIVE Log2(_)
Log2(n) == IF n <= 1 THEN 0 ELSE 1 + Log2(n \div 2)

Max(a, b) == IF a >= b THEN a ELSE b
Min(a, b) == IF a <= b THEN a ELSE b

kSingleLevelThreshold == kBaseCaseSize * (2 ^ kLogBuckets)
kTwoLevelThreshold == kSingleLevelThreshold * (2 ^ kLogBuckets)

logBuckets(n) ==
    IF n <= kSingleLevelThreshold
    THEN Max(1, Log2(n \div kBaseCaseSize))
    ELSE IF n <= kTwoLevelThreshold
         THEN Max(1, (Log2(n \div kBaseCaseSize) + 1) \div 2)
         ELSE kLogBuckets

\* the double result converted to difference_type (truncation)
oversamplingFactor(n) == Max(1, (OversampleF * Log2(n)) \div 100)

base_threshold == kBaseCaseMultiplier * kBaseCaseSize

----------------------------------------------------------------------------
(* Elements, comparator, buffer helpers *)

comp_(a, b) == a[1] < b[1]

At(b, p) == b[p + 1]
Put(b, p, v) == [b EXCEPT ![p + 1] = v]
Swap(b, p, q) == [b EXCEPT ![p + 1] = b[q + 1], ![q + 1] = b[p + 1]]

\* mutant of is_sorted: equal neighbours count as out of order
is_sorted_strict(b, begin, end) ==
    \A p \in begin .. (end - 2) : comp_(At(b, p), At(b, p + 1))

\* std::is_sorted(begin, end, comp_)
is_sorted(b, begin, end) ==
    \A p \in begin .. (end - 2) : ~comp_(At(b, p + 1), At(b, p))

\* mutant of reverse: the last element of the range is left in place
reverse_short(b, begin, end) ==
    [i \in 1 .. Len(b) |->
        IF begin + 1 <= i /\ i <= end - 1 THEN b[begin + end - i] ELSE b[i]]

\* std::reverse(begin, end)
reverse(b, begin, end) ==
    [i \in 1 .. Len(b) |->
        IF begin + 1 <= i /\ i <= end THEN b[begin + end + 1 - i] ELSE b[i]]

\* the multiset of the elements of b: element |-> number of positions holding it
BagOf(b) ==
    [e \in {b[i] : i \in DOMAIN b} |-> Cardinality({i \in DOMAIN b : b[i] = e})]

\* [begin, end) is non-decreasing / strictly descending under the comparator
NonDecreasing(b, begin, end) ==
    \A p \in begin .. (end - 1) : \A q \in (p + 1) .. (end - 1) :
        ~comp_(At(b, q), At(b, p))

StrictlyDescending(b, begin, end) ==
    \A p \in begin .. (end - 2) : comp_(At(b, p + 1), At(b, p))

NewTask(b, e, s) ==
    [begin |-> b, end |-> e, state |-> s,
     splitters |-> <<>>, bucket_counts |-> <<>>, bucket_starts |-> <<>>,
     num_samples |-> 0, step |-> 0, log_buckets |-> 0, num_buckets |-> 0]

Top == stack[Len(stack)]
Pop(s) == SubSeq(s, 1, Len(s) - 1)
SetTop(s, t) == [s EXCEPT ![Len(s)] = t]

is_done == stack = <<>>

Bump(n) == IF n < StepCap THEN n + 1 ELSE n
Did(op, t) == [op |-> op, begin |-> t.begin, end |-> t.end]

----------------------------------------------------------------------------
(* Construction *)

\* the key sequences of the inputs of length n: every sequence over
\* 1 .. MaxKey up to length MaxLen, every two-valued sequence (keys 1 and 2)
\* up to length MaxLongLen, and the strictly descending ramp n, n - 1, ..., 1
InputKeys(n) ==
    (IF n <= MaxLen THEN [1 .. n -> 1 .. MaxKey] ELSE {})
    \cup [1 .. n -> {1, 2}]
    \cup {[i \in 1 .. n |-> n + 1 - i]}

\* mutant of Init: nothing is pushed for an empty range
InitSkipsEmpty ==
    \E n \in 0 .. MaxLongLen :
      \E keys \in InputKeys(n) :
        \E tagged \in BOOLEAN :
          /\ tagged => (1 <= n /\ n <= MaxTagLen)
          /\ buf = [i \in 1 .. n |-> <<keys[i], IF tagged THEN i ELSE 0>>]
          /\ origBag = BagOf(buf)
          /\ origShape = [sorted |-> NonDecreasing(buf, 0, n),
                          descending |-> StrictlyDescending(buf, 0, n)]
          /\ stack = IF n = 0 THEN <<>> ELSE <<NewTask(0, n, "SIMPLE_CASES")>>
          /\ thrown = FALSE
          /\ nsteps = 0
          /\ last = [op |-> "init", begin |-> 0, end |-> n]

\* StateMachine(begin, end, comp): one task for the whole range
Init ==
    \E n \in 0 .. MaxLongLen :
      \E keys \in InputKeys(n) :
        \E tagged \in BOOLEAN :
          /\ tagged => (1 <= n /\ n <= MaxTagLen)
          /\ buf = [i \in 1 .. n |-> <<keys[i], IF tagged THEN i ELSE 0>>]
          /\ origBag = BagOf(buf)
          /\ origShape = [sorted |-> NonDecreasing(buf, 0, n),
                          descending |-> StrictlyDescending(buf, 0, n)]
          /\ stack = <<NewTask(0, n, "SIMPLE_CASES")>>
          /\ thrown = FALSE
          /\ nsteps = 0
          /\ last = [op |-> "init", begin |-> 0, end |-> n]

----------------------------------------------------------------------------
(* step() on an empty stack *)

\* mutant of StepDone: a finished machine starts over on the whole range
StepDoneRestarts ==
    /\ ~thrown
    /\ stack = <<>>
    /\ stack' = <<NewTask(0, Len(buf), "SIMPLE_CASES")>>
    /\ nsteps' = Bump(nsteps)
    /\ last' = [op |-> "noop", begin |-> 0, end |-> 0]
    /\ UNCHANGED <<buf, thrown, origBag, origShape>>

StepDone ==
    /\ ~thrown
    /\ stack = <<>>
    /\ nsteps' = Bump(nsteps)
    /\ last' = [op |-> "noop", begin |-> 0, end |-> 0]
    /\ UNCHANGED <<buf, stack, thrown, origBag, origShape>>

----------------------------------------------------------------------------
(* handle_simple_cases *)

\* mutant of HasAscendingPair: only the first adjacent pair is looked at
HasAscendingPairFirstOnly(b, begin, end) ==
    begin <= end - 2 /\ comp_(At(b, begin), At(b, begin + 1))

\* mutant of HasAscendingPair: a pair of equal neighbours also ends the scan
HasAscendingPairOrEqual(b, begin, end) ==
    \E p \in begin .. (end - 2) : ~comp_(At(b, p + 1), At(b, p))

\* the scan for (it = begin; it + 1 != end; ++it) if (comp_(*it, *(it + 1)))
HasAscendingPair(b, begin, end) ==
    \E p \in begin .. (end - 2) : comp_(At(b, p), At(b, p + 1))

handle_simple_cases ==
    /\ ~thrown
    /\ stack # <<>>
    /\ Top.state = "SIMPLE_CASES"
    /\ LET t == Top IN
       IF t.begin = t.end
       THEN /\ stack' = Pop(stack)
            /\ buf' = buf
            /\ last' = Did("simple_empty", t)
       ELSE IF ~comp_(At(buf, t.end - 1), At(buf, t.begin))
       THEN IF is_sorted(buf, t.begin, t.end)
            THEN /\ stack' = Pop(stack)
                 /\ buf' = buf
                 /\ last' = Did("simple_sorted", t)
            ELSE /\ stack' = SetTop(stack, [t EXCEPT !.state = "BASE_CASE"])
                 /\ buf' = buf
                 /\ last' = Did("simple_to_base", t)
       ELSE IF HasAscendingPair(buf, t.begin, t.end)
            THEN /\ stack' = SetTop(stack, [t EXCEPT !.state = "BASE_CASE"])
                 /\ buf' = buf
                 /\ last' = Did("simple_to_base", t)
            ELSE /\ stack' = Pop(stack)
                 /\ buf' = reverse(buf, t.begin, t.end)
                 /\ last' = Did("simple_reversed", t)
    /\ nsteps' = Bump(nsteps)
    /\ UNCHANGED <<thrown, origBag, origShape>>

----------------------------------------------------------------------------
(* handle_base_case: insertion sort of a range of at most base_threshold *)

\* std::move_backward(begin, it, it + 1); *begin = val
ShiftPrefix(b, begin, it, val) ==
    [i \in 1 .. Len(b) |->
        IF i = begin + 1 THEN val
        ELSE IF begin + 1 < i /\ i <= it + 1 THEN b[i - 1]
        ELSE b[i]]

\* mutant of InsertBackward: the held value is not stored back
RECURSIVE InsertBackwardDropVal(_, _, _)
InsertBackwardDropVal(b, val, cur) ==
    IF comp_(val, At(b, cur - 1))
    THEN InsertBackwardDropVal(Put(b, cur, At(b, cur - 1)), val, cur - 1)
    ELSE b

\* the inner loop: for (next = cur - 1; comp_(val, *next); --next), then
\* *cur = val.  The loop has no bound of its own: it stops at the latest at
\* begin, where comp_(val, *begin) was false.
RECURSIVE InsertBackward(_, _, _)
InsertBackward(b, val, cur) ==
    IF comp_(val, At(b, cur - 1))
    THEN InsertBackward(Put(b, cur, At(b, cur - 1)), val, cur - 1)
    ELSE Put(b, cur, val)

\* mutant of InsertOne: an element equal to the first one also goes to the front
InsertOneLoose(b, begin, it) ==
    LET val == At(b, it) IN
    IF ~comp_(At(b, begin), val)
    THEN ShiftPrefix(b, begin, it, val)
    ELSE InsertBackward(b, val, it)

\* one iteration of the outer loop, for the element at it
InsertOne(b, begin, it) ==
    LET val == At(b, it) IN
    IF comp_(val, At(b, begin))
    THEN ShiftPrefix(b, begin, it, val)
    ELSE InsertBackward(b, val, it)

RECURSIVE insertion_sort(_, _, _, _)
insertion_sort(b, begin, end, it) ==
    IF it < end
    THEN insertion_sort(InsertOne(b, begin, it), begin, end, it + 1)
    ELSE b

\* mutant of InBaseRange: the threshold itself is sent on to sampling
InBaseRangeExclusive(t) == t.end - t.begin < base_threshold

\* mutant of InBaseRange: the range is compared with half the threshold
InBaseRangeHalf(t) == t.end - t.begin <= base_threshold \div 2

\* the test  end - begin <= base_threshold
InBaseRange(t) == t.end - t.begin <= base_threshold

handle_base_case ==
    /\ ~thrown
    /\ stack # <<>>
    /\ Top.state = "BASE_CASE"
    /\ LET t == Top IN
       IF InBaseRange(t)
       THEN IF t.begin = t.end
            THEN /\ stack' = Pop(stack)
                 /\ buf' = buf
                 /\ last' = Did("base_empty", t)
            ELSE /\ stack' = Pop(stack)
                 /\ buf' = insertion_sort(buf, t.begin, t.end, t.begin + 1)
                 /\ last' = Did("base_sorted", t)
       ELSE /\ stack' = SetTop(stack, [t EXCEPT !.state = "SAMPLE_SELECT"])
            /\ buf' = buf
            /\ last' = Did("base_to_sample", t)
    /\ nsteps' = Bump(nsteps)
    /\ UNCHANGED <<thrown, origBag, origShape>>

----------------------------------------------------------------------------
(* handle_sample_select *)

\* mutant of SamplePlan: the sample is capped at n, not at n / 2
SamplePlanNoHalf(t) ==
    LET n == t.end - t.begin
        lb == logBuckets(n)
        nb == 2 ^ lb
        st == Max(1, oversamplingFactor(n))
    IN [t EXCEPT !.state = "SAMPLE_SORTED",
                 !.log_buckets = lb,
                 !.num_buckets = nb,
                 !.step = st,
                 !.num_samples = Min(st * nb - 1, n)]

\* the sampling plan stored in the context task
SamplePlan(t) ==
    LET n == t.end - t.begin
        lb == logBuckets(n)
        nb == 2 ^ lb
        st == Max(1, oversamplingFactor(n))
    IN [t EXCEPT !.state = "SAMPLE_SORTED",
                 !.log_buckets = lb,
                 !.num_buckets = nb,
                 !.step = st,
                 !.num_samples = Min(st * nb - 1, n \div 2)]

\* mutant of SampleSwaps: remaining is decremented after the draw, so
\* random_idx ranges over [0, n - i] and the swap can reach the position at
\* end (here only while that position is in the buffer)
RECURSIVE SampleSwapsLateDecrement(_, _, _, _, _)
SampleSwapsLateDecrement(bufs, begin, n, i, num_samples) ==
    IF i < num_samples
    THEN SampleSwapsLateDecrement(
             { Swap(b, begin + i, begin + i + random_idx)
               : b \in bufs,
                 random_idx \in 0 .. Min(n - i, Len(buf) - 1 - begin - i) },
             begin, n, i + 1, num_samples)
    ELSE bufs

\* the buffers the swap loop can produce: iteration i draws random_idx from
\* [0, n - 1 - i] (remaining is decremented before the draw) and swaps
\* positions begin + i and begin + i + random_idx.  bufs is the set of
\* buffers the iterations before i can have left.
RECURSIVE SampleSwaps(_, _, _, _, _)
SampleSwaps(bufs, begin, n, i, num_samples) ==
    IF i < num_samples
    THEN SampleSwaps({ Swap(b, begin + i, begin + i + random_idx)
                       : b \in bufs, random_idx \in 0 .. (n - 1 - i) },
                     begin, n, i + 1, num_samples)
    ELSE bufs

\* mutant of PushSampleTask: the sample task goes below its parent
PushSampleTaskBelow(s, context_task) ==
    Append(SetTop(s, NewTask(context_task.begin,
                             context_task.begin + context_task.num_samples,
                             "SIMPLE_CASES")),
           context_task)

\* task_stack_.top() = context_task; task_stack_.push(Task(begin,
\* begin + num_samples, SIMPLE_CASES))
PushSampleTask(s, context_task) ==
    Append(SetTop(s, context_task),
           NewTask(context_task.begin,
                   context_task.begin + context_task.num_samples,
                   "SIMPLE_CASES"))

handle_sample_select ==
    /\ ~thrown
    /\ stack # <<>>
    /\ Top.state = "SAMPLE_SELECT"
    /\ LET t == Top
           context_task == SamplePlan(t)
       IN /\ buf' \in SampleSwaps({buf}, t.begin, t.end - t.begin, 0,
                                  context_task.num_samples)
          /\ stack' = PushSampleTask(stack, context_task)
          /\ last' = Did("sample_select", t)
    /\ nsteps' = Bump(nsteps)
    /\ UNCHANGED <<thrown, origBag, origShape>>

----------------------------------------------------------------------------
(* handle_sample_sorted *)

\* mutant of SkipDuplicates: the loop advances once and does not compare
SkipDuplicatesOnce(b, back, splitter, sample_end, step) == splitter

\* the "skip duplicates" loop: the position the splitter iterator rests on
RECURSIVE SkipDuplicates(_, _, _, _, _)
SkipDuplicates(b, back, splitter, sample_end, step) ==
    IF splitter < sample_end /\ ~comp_(back, At(b, splitter))
    THEN SkipDuplicates(b, back, splitter + step, sample_end, step)
    ELSE splitter

RECURSIVE BuildSplitters(_, _, _, _, _, _)
BuildSplitters(b, splitters, splitter, sample_end, step, num_buckets) ==
    IF splitter < sample_end /\ Len(splitters) < num_buckets - 1
    THEN BuildSplitters(b, Append(splitters, At(b, splitter)),
                        SkipDuplicates(b, At(b, splitter), splitter + step,
                                       sample_end, step),
                        sample_end, step, num_buckets)
    ELSE splitters

SplittersOf(b, t) ==
    IF t.num_samples > 0 /\ t.step > 0
    THEN BuildSplitters(b, <<>>, t.begin + t.step - 1,
                        t.begin + t.num_samples, t.step, t.num_buckets)
    ELSE <<>>

handle_sample_sorted ==
    /\ ~thrown
    /\ stack # <<>>
    /\ Top.state = "SAMPLE_SORTED"
    /\ LET t == Top
           sp == SplittersOf(buf, t)
       IN /\ stack' = SetTop(stack,
                 [t EXCEPT !.splitters = sp,
                           !.bucket_counts = [i \in 1 .. Len(sp) + 1 |-> 0],
                           !.state = "CLASSIFY"])
          /\ last' = Did("sample_sorted", t)
    /\ buf' = buf
    /\ nsteps' = Bump(nsteps)
    /\ UNCHANGED <<thrown, origBag, origShape>>

----------------------------------------------------------------------------
(* handle_classify *)

\* the bucket (0-based) the inner loop leaves in `bucket` for element x
BucketOf(x, splitters) ==
    IF \E i \in 1 .. Len(splitters) : comp_(x, splitters[i])
    THEN (CHOOSE i \in 1 .. Len(splitters) :
             /\ comp_(x, splitters[i])
             /\ \A j \in 1 .. (i - 1) : ~comp_(x, splitters[j])) - 1
    ELSE Len(splitters)

\* bucket_counts after the loop over [begin, end)
CountBuckets(b, t) ==
    [k \in 1 .. Len(t.bucket_counts) |->
        t.bucket_counts[k]
        + Cardinality({p \in t.begin .. (t.end - 1) :
                          BucketOf(At(b, p), t.splitters) = k - 1})]

handle_classify ==
    /\ ~thrown
    /\ stack # <<>>
    /\ Top.state = "CLASSIFY"
    /\ LET t == Top IN
          /\ stack' = SetTop(stack,
                 [t EXCEPT !.bucket_counts = CountBuckets(buf, t),
                           !.state = "PARTITION"])
          /\ last' = Did("classify", t)
    /\ buf' = buf
    /\ nsteps' = Bump(nsteps)
    /\ UNCHANGED <<thrown, origBag, origShape>>

----------------------------------------------------------------------------
(* the bucket loop of handle_recurse *)

\* mutant of PushBuckets: buckets of two elements are not pushed either
RECURSIVE PushBucketsSkipPairs(_, _, _, _)
PushBucketsSkipPairs(s, begin_iter, bucket_starts, i) ==
    IF i > 0
    THEN LET lo == bucket_starts[i]
             hi == bucket_starts[i + 1]
         IN PushBucketsSkipPairs(IF hi - lo > 2
                                 THEN Append(s, NewTask(begin_iter + lo,
                                                        begin_iter + hi,
                                                        "SIMPLE_CASES"))
                                 ELSE s,
                                 begin_iter, bucket_starts, i - 1)
    ELSE s

\* mutant of PushBuckets: a bucket starts one position early, on the last
\* element of the bucket before it
RECURSIVE PushBucketsEarlyBegin(_, _, _, _)
PushBucketsEarlyBegin(s, begin_iter, bucket_starts, i) ==
    IF i > 0
    THEN LET lo == bucket_starts[i]
             hi == bucket_starts[i + 1]
         IN PushBucketsEarlyBegin(IF hi - lo > 1
                                  THEN Append(s, NewTask(begin_iter + Max(0, lo - 1),
                                                         begin_iter + hi,
                                                         "SIMPLE_CASES"))
                                  ELSE s,
                                  begin_iter, bucket_starts, i - 1)
    ELSE s

\* mutant of PushBuckets: single-element buckets are pushed as well
RECURSIVE PushBucketsWithSingles(_, _, _, _)
PushBucketsWithSingles(s, begin_iter, bucket_starts, i) ==
    IF i > 0
    THEN LET lo == bucket_starts[i]
             hi == bucket_starts[i + 1]
         IN PushBucketsWithSingles(IF hi - lo >= 1
                                   THEN Append(s, NewTask(begin_iter + lo,
                                                          begin_iter + hi,
                                                          "SIMPLE_CASES"))
                                   ELSE s,
                                   begin_iter, bucket_starts, i - 1)
    ELSE s

\* mutant of PushBuckets: the loop runs from the first bucket to the last,
\* so the last bucket ends up on top
RECURSIVE PushBucketsForward(_, _, _, _)
PushBucketsForward(s, begin_iter, bucket_starts, i) ==
    IF i > 0
    THEN LET lo == bucket_starts[Len(bucket_starts) - i]
             hi == bucket_starts[Len(bucket_starts) - i + 1]
         IN PushBucketsForward(IF hi - lo > 1
                               THEN Append(s, NewTask(begin_iter + lo,
                                                      begin_iter + hi,
                                                      "SIMPLE_CASES"))
                               ELSE s,
                               begin_iter, bucket_starts, i - 1)
    ELSE s

\* the loop for (i = size - 1; i > 0; --i): bucket i - 1 is
\* [bucket_starts[i - 1], bucket_starts[i]) (0-based indices); it is pushed
\* when it holds more than one element
RECURSIVE PushBuckets(_, _, _, _)
PushBuckets(s, begin_iter, bucket_starts, i) ==
    IF i > 0
    THEN LET lo == bucket_starts[i]          \* bucket_starts[i - 1], 0-based
             hi == bucket_starts[i + 1]      \* bucket_starts[i], 0-based
             bucket_size == hi - lo
         IN PushBuckets(IF bucket_size > 1
                        THEN Append(s, NewTask(begin_iter + lo, begin_iter + hi,
                                               "SIMPLE_CASES"))
                        ELSE s,
                        begin_iter, bucket_starts, i - 1)
    ELSE s

----------------------------------------------------------------------------
(* handle_partition *)

\* std::partition(first, last, [&](val) { return comp_(val, splitter); }) as
\* the standard libraries implement it for bidirectional iterators: scan
\* forward over elements that satisfy the predicate, scan backward over
\* elements that do not, swap the two that stopped the scans, repeat.
\* The result is [buf, point].
RECURSIVE PartitionForward(_, _, _, _), PartitionBackward(_, _, _, _)
RECURSIVE PartitionBackwardLoose(_, _, _, _)
PartitionForward(b, first, lst, splitter) ==
    IF first = lst THEN [buf |-> b, point |-> first]
    ELSE IF comp_(At(b, first), splitter)
         THEN PartitionForward(b, first + 1, lst, splitter)
         ELSE PartitionBackward(b, first, lst - 1, splitter)

\* mutant of PartitionBackward: the backward scan passes only the elements
\* greater than the splitter, so an element equal to it is swapped forward
PartitionBackwardLoose(b, first, lst, splitter) ==
    IF first = lst THEN [buf |-> b, point |-> first]
    ELSE IF comp_(splitter, At(b, lst))
         THEN PartitionBackwardLoose(b, first, lst - 1, splitter)
         ELSE PartitionForward(Swap(b, first, lst), first + 1, lst, splitter)

PartitionBackward(b, first, lst, splitter) ==
    IF first = lst THEN [buf |-> b, point |-> first]
    ELSE IF ~comp_(At(b, lst), splitter)
         THEN PartitionBackward(b, first, lst - 1, splitter)
         ELSE PartitionForward(Swap(b, first, lst), first + 1, lst, splitter)

partition(b, first, lst, splitter) == PartitionForward(b, first, lst, splitter)

\* the loop over the splitters from splitter i on; the result is
\* [buf, bucket_starts] with the last bucket's end appended
RECURSIVE PartitionLoop(_, _, _, _, _)
PartitionLoop(b, t, i, current_begin, bucket_starts) ==
    IF i <= Len(t.splitters)
    THEN LET r == partition(b, current_begin, t.end, t.splitters[i]) IN
         PartitionLoop(r.buf, t, i + 1, r.point,
                       Append(bucket_starts, r.point - t.begin))
    ELSE [buf |-> b, bucket_starts |-> Append(bucket_starts, t.end - t.begin)]

\* mutant of handle_partition: the buckets are pushed by this step, with no
\* RECURSE step in between
handle_partition_emits ==
    /\ ~thrown
    /\ stack # <<>>
    /\ Top.state = "PARTITION"
    /\ LET t == Top
           r == PartitionLoop(buf, t, 1, t.begin, <<0>>)
       IN /\ buf' = r.buf
          /\ stack' = PushBuckets(Pop(stack), t.begin, r.bucket_starts,
                                  Len(r.bucket_starts) - 1)
          /\ last' = Did("partition", t)
    /\ nsteps' = Bump(nsteps)
    /\ UNCHANGED <<thrown, origBag, origShape>>

handle_partition ==
    /\ ~thrown
    /\ stack # <<>>
    /\ Top.state = "PARTITION"
    /\ LET t == Top
           r == PartitionLoop(buf, t, 1, t.begin, <<0>>)
       IN /\ buf' = r.buf
          /\ stack' = SetTop(stack,
                 [t EXCEPT !.bucket_starts = r.bucket_starts,
                           !.state = "RECURSE"])
          /\ last' = Did("partition", t)
    /\ nsteps' = Bump(nsteps)
    /\ UNCHANGED <<thrown, origBag, origShape>>

----------------------------------------------------------------------------
(* handle_recurse *)

handle_recurse ==
    /\ ~thrown
    /\ stack # <<>>
    /\ Top.state = "RECURSE"
    /\ LET t == Top IN
          /\ stack' = PushBuckets(Pop(stack), t.begin, t.bucket_starts,
                                  Len(t.bucket_starts) - 1)
          /\ last' = Did("recurse", t)
    /\ buf' = buf
    /\ nsteps' = Bump(nsteps)
    /\ UNCHANGED <<thrown, origBag, origShape>>

----------------------------------------------------------------------------
(* A comparator that raises.  The exception leaves step() (and run()) at the *)
(* failing comparison: the buffer stays as the handler had it at that call   *)
(* of comp_, the task stays on the stack, and no further step is modelled.   *)

\* buffers at the calls of comp_ in the inner loop of the insertion sort
RECURSIVE InsertBackwardSeen(_, _, _)
InsertBackwardSeen(b, val, cur) ==
    {b} \cup (IF comp_(val, At(b, cur - 1))
              THEN InsertBackwardSeen(Put(b, cur, At(b, cur - 1)), val, cur - 1)
              ELSE {})

\* buffers at the calls of comp_ in the insertion sort from iteration it on
RECURSIVE InsertionSeen(_, _, _, _)
InsertionSeen(b, begin, end, it) ==
    IF it < end
    THEN LET val == At(b, it) IN
         {b}
         \cup (IF comp_(val, At(b, begin)) THEN {}
               ELSE InsertBackwardSeen(b, val, it))
         \cup InsertionSeen(InsertOne(b, begin, it), begin, end, it + 1)
    ELSE {}

\* buffers at the calls of the predicate in std::partition
RECURSIVE PartitionForwardSeen(_, _, _, _), PartitionBackwardSeen(_, _, _, _)
PartitionForwardSeen(b, first, lst, splitter) ==
    IF first = lst THEN {}
    ELSE {b} \cup (IF comp_(At(b, first), splitter)
                   THEN PartitionForwardSeen(b, first + 1, lst, splitter)
                   ELSE PartitionBackwardSeen(b, first, lst - 1, splitter))

PartitionBackwardSeen(b, first, lst, splitter) ==
    IF first = lst THEN {}
    ELSE {b} \cup (IF ~comp_(At(b, lst), splitter)
                   THEN PartitionBackwardSeen(b, first, lst - 1, splitter)
                   ELSE PartitionForwardSeen(Swap(b, first, lst), first + 1, lst,
                                             splitter))

RECURSIVE PartitionLoopSeen(_, _, _, _)
PartitionLoopSeen(b, t, i, current_begin) ==
    IF i <= Len(t.splitters)
    THEN LET r == partition(b, current_begin, t.end, t.splitters[i]) IN
         PartitionForwardSeen(b, current_begin, t.end, t.splitters[i])
         \cup PartitionLoopSeen(r.buf, t, i + 1, r.point)
    ELSE {}

\* the buffers at the calls of comp_ during the step that dispatches on t
ComparisonBufs(b, t) ==
    CASE t.state = "SIMPLE_CASES" ->
            IF t.begin = t.end THEN {} ELSE {b}
      [] t.state = "BASE_CASE" ->
            IF InBaseRange(t)
            THEN InsertionSeen(b, t.begin, t.end, t.begin + 1)
            ELSE {}
      [] t.state = "SAMPLE_SORTED" ->
            IF t.num_samples > 0 /\ t.step > 0
               /\ t.step - 1 < t.num_samples /\ t.step - 1 + t.step < t.num_samples
            THEN {b} ELSE {}
      [] t.state = "CLASSIFY" ->
            IF t.begin < t.end /\ Len(t.splitters) > 0 THEN {b} ELSE {}
      [] t.state = "PARTITION" ->
            PartitionLoopSeen(b, t, 1, t.begin)
      [] OTHER -> {}

comparator_throws ==
    /\ ~thrown
    /\ stack # <<>>
    /\ buf' \in ComparisonBufs(buf, Top)
    /\ thrown' = TRUE
    /\ last' = Did("throw", Top)
    /\ nsteps' = Bump(nsteps)
    /\ UNCHANGED <<stack, origBag, origShape>>

----------------------------------------------------------------------------
(* step(), run() *)

step ==
    \/ StepDone
    \/ handle_simple_cases
    \/ handle_base_case
    \/ handle_sample_select
    \/ handle_sample_sorted
    \/ handle_classify
    \/ handle_partition
    \/ handle_recurse

Next == step

\* a comparator that never raises
Spec == Init /\ [][Next]_vars

\* a comparator that may raise at any of its calls
NextThrow == step \/ comparator_throws

SpecThrow == Init /\ [][NextThrow]_vars

\* run(): the loop calls step() as long as the stack is not empty; nothing is
\* assumed about the values the random draws take
InitLive == Init /\ Len(buf) <= MaxLiveLen

FairSpec == InitLive /\ [][Next]_vars /\ WF_vars(step)

----------------------------------------------------------------------------
(* Properties *)

WholeRange == NewTask(0, Len(buf), "SIMPLE_CASES")

PopOps == {"simple_empty", "simple_sorted", "simple_reversed",
           "base_empty", "base_sorted"}

\* C1: once run() has returned (the stack is empty, is_done() is true) the
\* whole range [begin, end) is non-decreasing under the comparator, whatever
\* the random draws were.
C1_SortedWhenDone ==
    (is_done /\ ~thrown) => NonDecreasing(buf, 0, Len(buf))

\* a run that could not use a fast path: the range is longer than the base
\* threshold, it took three steps or more, and the last of them emptied the
\* stack
C1_Witness ==
    /\ is_done
    /\ Len(buf) > base_threshold
    /\ nsteps = StepCap
    /\ last.op \in PopOps
    /\ ~origShape.sorted /\ ~origShape.descending

\* C2: between any two step() calls, and so after run(), the buffer holds the
\* multiset of elements it held at construction: no step creates, destroys or
\* duplicates an element.
C2_PermutationPreserved ==
    ~thrown => BagOf(buf) = origBag

\* the insertion sort has just moved tagged elements: the first position no
\* longer holds the element that started there
C2_Witness ==
    /\ last.op = "base_sorted"
    /\ Len(buf) > 0
    /\ buf[1][2] > 1

\* C3: run() terminates on every execution: whatever the random draws are,
\* the stack eventually becomes empty.
C3_RunTerminates == <>is_done

\* C4: when the comparator raises at any comparison of any step, the buffer
\* at that moment is a permutation of the original elements.
C4_ThrowLeavesPermutation ==
    thrown => BagOf(buf) = origBag

\* C5: step() on a machine that is done changes nothing: the stack stays
\* empty, is_done() stays true and the buffer keeps every element.
C5_StepWhenDoneIsNoOp ==
    [][is_done => (stack' = <<>> /\ is_done' /\ buf' = buf)]_vars

\* a step() was taken on a machine that was already done
C5_Witness ==
    is_done /\ last.op = "noop"

\* C6: construction leaves exactly one task, the whole range in state
\* SIMPLE_CASES, also for an empty range; an empty range is therefore not done
\* after construction and is done after exactly one step(), without an error.
C6_ConstructionPushesOneTask ==
    /\ nsteps = 0 => (stack = <<WholeRange>> /\ ~is_done)
    /\ (Len(buf) = 0 /\ nsteps >= 1) => (is_done /\ ~thrown)

\* the one step() on an empty range has been taken
C6_Witness ==
    Len(buf) = 0 /\ nsteps = 1 /\ is_done /\ last.op = "simple_empty"

\* C7: a machine constructed over a non-decreasing range of any length is
\* done after its first step(): every step leaves the stack empty and the
\* buffer as it was, the first one by the pop of SIMPLE_CASES, so no task is
\* pushed and none enters BASE_CASE or SAMPLE_SELECT.
C7_SortedInputOneStep ==
    [][origShape.sorted =>
          /\ stack' = <<>>
          /\ buf' = buf
          /\ nsteps = 0 => last'.op \in {"simple_empty", "simple_sorted"}
          /\ nsteps > 0 => last'.op = "noop"]_vars

\* the first step() on a sorted range longer than the base threshold that has
\* equal neighbours
C7_Witness ==
    /\ origShape.sorted
    /\ Len(buf) > base_threshold
    /\ \E p \in 1 .. (Len(buf) - 1) : ~comp_(buf[p], buf[p + 1])
    /\ nsteps = 1
    /\ is_done

C9_ShortRange ==
    Len(buf) <= base_threshold =>
        /\ Len(stack) <= 1
        /\ \A i \in 1 .. Len(stack) : stack[i].state \in {"SIMPLE_CASES", "BASE_CASE"}
        /\ last.op \in PopOps \cup {"init", "noop", "simple_to_base"}
        /\ nsteps >= 2 => (is_done /\ NonDecreasing(buf, 0, Len(buf)))

C9_LongBaseCase ==
    (stack # <<>> /\ Top.state = "BASE_CASE" /\ Top.end - Top.begin > base_threshold)
        => /\ buf' = buf
           /\ stack' = SetTop(stack, [Top EXCEPT !.state = "SAMPLE_SELECT"])

C9_BaseCaseOnlyUpToThreshold ==
    C9_ShortRange /\ [][C9_ShortRange' /\ C9_LongBaseCase]_vars

\* a range of exactly base_threshold elements went through SIMPLE_CASES and
\* the insertion sort
C9_Witness ==
    /\ Len(buf) = base_threshold
    /\ nsteps = 2
    /\ last.op = "base_sorted"
    /\ is_done

\* C10: whenever a step pops a task from SIMPLE_CASES or BASE_CASE, the range
\* of that task is non-decreasing at that moment.
C10_PoppedRangeSorted ==
    last.op \in PopOps => NonDecreasing(buf, last.begin, last.end)

\* a bucket or sample of a larger task was popped by the insertion sort while
\* other tasks were still on the stack
C10_Witness ==
    /\ last.op = "base_sorted"
    /\ stack # <<>>
    /\ last.end - last.begin = base_threshold

----------------------------------------------------------------------------
(* Buckets, simple cases, continuation order *)

\* the tasks a step has pushed above the task it dispatched on (or in its
\* place): positions Len(stack) .. Len(stack') of the new stack
PushedAt == Len(stack) .. Len(stack')

\* C11: every bucket task pushed when a partitioned task is popped has a
\* range strictly smaller than the range of the task it came from; a bucket
\* equal to the whole parent range is never pushed back.
C11_BucketsStrictlySmaller ==
    [][(stack # <<>> /\ Top.state = "RECURSE") =>
          \A i \in PushedAt :
              stack'[i].end - stack'[i].begin < Top.end - Top.begin]_vars

\* no adjacent pair of [begin, end) is ascending
NonIncreasing(b, begin, end) ==
    \A p \in begin .. (end - 2) : ~comp_(At(b, p), At(b, p + 1))

\* b2 is b with [begin, end) reversed and every other position as it was
ReversedIn(b, b2, begin, end) ==
    /\ Len(b2) = Len(b)
    /\ \A i \in 1 .. Len(b) :
          b2[i] = IF begin + 1 <= i /\ i <= end THEN b[begin + end + 1 - i] ELSE b[i]

\* C12 as stated: SIMPLE_CASES reverses only a strictly descending range;
\* every non-empty range that is neither sorted ascending nor strictly
\* descending moves to BASE_CASE with the buffer untouched and the task
\* still on the stack.
C12_ReversalOnlyStrictlyDescending ==
    [][(stack # <<>> /\ Top.state = "SIMPLE_CASES") =>
          LET t == Top IN
          /\ last'.op = "simple_reversed" => StrictlyDescending(buf, t.begin, t.end)
          /\ (/\ t.begin # t.end
              /\ ~NonDecreasing(buf, t.begin, t.end)
              /\ ~StrictlyDescending(buf, t.begin, t.end))
                => /\ buf' = buf
                   /\ stack' = SetTop(stack, [t EXCEPT !.state = "BASE_CASE"])]_vars

\* C12 as amended: SIMPLE_CASES reverses exactly the ranges that are
\* non-increasing (no adjacent pair ascending) and not sorted ascending,
\* equal neighbours included, and pops them; a sorted range is popped
\* untouched; every other range moves to BASE_CASE with the buffer untouched
\* and the task still on the stack.
C12_ReversalWhenNonIncreasing ==
    [][(stack # <<>> /\ Top.state = "SIMPLE_CASES") =>
          LET t == Top
              sorted == NonDecreasing(buf, t.begin, t.end)
              noninc == NonIncreasing(buf, t.begin, t.end)
          IN /\ sorted => (buf' = buf /\ stack' = Pop(stack))
             /\ (~sorted /\ noninc) =>
                   /\ ReversedIn(buf, buf', t.begin, t.end)
                   /\ NonDecreasing(buf', t.begin, t.end)
                   /\ stack' = Pop(stack)
                   /\ last'.op = "simple_reversed"
             /\ last'.op = "simple_reversed" => (~sorted /\ noninc)
             /\ (~sorted /\ ~noninc) =>
                   /\ buf' = buf
                   /\ stack' = SetTop(stack, [t EXCEPT !.state = "BASE_CASE"])]_vars

\* a range with equal neighbours has just been reversed
C12_Witness ==
    /\ last.op = "simple_reversed"
    /\ \E p \in last.begin .. (last.end - 2) : ~comp_(At(buf, p), At(buf, p + 1))

\* task u lies in the range of task t and holds a position of t's sample
\* prefix [begin, begin + num_samples): the sample task of t or a task that
\* came from it
InSamplePrefix(u, t) ==
    /\ t.begin <= u.begin /\ u.end <= t.end
    /\ u.begin < t.begin + t.num_samples
    /\ t.begin < u.end

C13_SampleSortedOnTop ==
    (stack # <<>> /\ Top.state = "SAMPLE_SORTED") =>
        /\ NonDecreasing(buf, Top.begin, Top.begin + Top.num_samples)
        /\ \A i \in 1 .. (Len(stack) - 1) : ~InSamplePrefix(stack[i], Top)

C13_BecomesTopByPop ==
    (stack' # stack /\ stack' # <<>> /\ stack'[Len(stack')].state = "SAMPLE_SORTED") =>
        /\ stack' = Pop(stack)
        /\ InSamplePrefix(Top, stack'[Len(stack')])

\* C13: whenever a task in state SAMPLE_SORTED is on top of the stack, its
\* sample prefix is non-decreasing and no task of its sample prefix is on the
\* stack; it comes to the top only by the pop of the last task of its sample
\* prefix, never while such a task is still on the stack.
C13_ContinuationOrder ==
    C13_SampleSortedOnTop /\ [][C13_SampleSortedOnTop' /\ C13_BecomesTopByPop]_vars

\* the insertion sort has popped a sample task of three elements and its
\* parent, below another task in SAMPLE_SORTED or alone, is on top
C13_Witness ==
    /\ stack # <<>>
    /\ Top.state = "SAMPLE_SORTED"
    /\ Top.num_samples = 3
    /\ last.op = "base_sorted"
    /\ last.begin = Top.begin /\ last.end = Top.begin + Top.num_samples

\* the half-open ranges of two tasks share no position
DisjointRanges(a, b) == a.end <= b.begin \/ b.end <= a.begin

\* C14: any two tasks on the stack have disjoint ranges or nested ranges; in
\* the nested case the enclosing task is the deeper one, is in state
\* SAMPLE_SORTED, and the enclosed task lies in its sample prefix
\* [begin, begin + num_samples).  No two ranges overlap in part.
C14_DisjointOrNested ==
    \A i \in 1 .. Len(stack) : \A j \in (i + 1) .. Len(stack) :
        LET deeper == stack[i]
            upper == stack[j]
        IN \/ DisjointRanges(deeper, upper)
           \/ /\ deeper.state = "SAMPLE_SORTED"
              /\ deeper.begin <= upper.begin
              /\ upper.end <= deeper.begin + deeper.num_samples

\* a bucket waits at the bottom while its neighbour bucket, in SAMPLE_SORTED,
\* has its sample task above it
C14_Witness ==
    /\ Len(stack) >= 3
    /\ DisjointRanges(stack[1], stack[2])
    /\ stack[2].state = "SAMPLE_SORTED"
    /\ ~DisjointRanges(stack[2], stack[3])
    /\ stack[1].end - stack[1].begin > 1

----------------------------------------------------------------------------
(* Sampling plan, splitters, partition *)

\* C15: a step on a task in SAMPLE_SELECT with range length n stores
\* num_buckets = 2^logBuckets(n), step = max(1, oversamplingFactor(n)) and
\* num_samples = min(step * num_buckets - 1, n / 2) in that task, rewrites
\* its state to SAMPLE_SORTED with the range unchanged, and pushes exactly one
\* task [begin, begin + num_samples) in SIMPLE_CASES on top of it; that range
\* is non-empty and strictly shorter than the parent's.
C15_SamplingPlanStored ==
    [][(stack # <<>> /\ Top.state = "SAMPLE_SELECT") =>
          LET t == Top
              n == t.end - t.begin
              num_buckets == 2 ^ logBuckets(n)
              stride == IF oversamplingFactor(n) > 1 THEN oversamplingFactor(n) ELSE 1
              half == n \div 2
              num_samples == IF stride * num_buckets - 1 < half
                             THEN stride * num_buckets - 1 ELSE half
          IN /\ Len(stack') = Len(stack) + 1
             /\ \A i \in 1 .. (Len(stack) - 1) : stack'[i] = stack[i]
             /\ stack'[Len(stack)].state = "SAMPLE_SORTED"
             /\ stack'[Len(stack)].begin = t.begin
             /\ stack'[Len(stack)].end = t.end
             /\ stack'[Len(stack)].num_buckets = num_buckets
             /\ stack'[Len(stack)].step = stride
             /\ stack'[Len(stack)].num_samples = num_samples
             /\ stack'[Len(stack')].state = "SIMPLE_CASES"
             /\ stack'[Len(stack')].begin = t.begin
             /\ stack'[Len(stack')].end = t.begin + num_samples
             /\ 0 < num_samples
             /\ num_samples < n]_vars

\* the plan of a range of eight elements (eight buckets, four samples) has
\* just been stored and its sample task pushed
C15_Witness ==
    /\ last.op = "sample_select"
    /\ last.end - last.begin = 8
    /\ Len(stack) >= 2
    /\ stack[Len(stack) - 1].num_buckets = 8
    /\ stack[Len(stack) - 1].num_samples = 4
    /\ Top.end - Top.begin = 4

\* the values held by the sample prefix of task t in buffer b
SampleValues(b, t) ==
    {At(b, p) : p \in t.begin .. (t.begin + t.num_samples - 1)}

StrictlyIncreasing(sp) ==
    \A i \in 1 .. Len(sp) : \A j \in (i + 1) .. Len(sp) : comp_(sp[i], sp[j])

\* C16: after the step that handles SAMPLE_SORTED the task's splitters are
\* strictly increasing under the comparator, every splitter is a value of the
\* sample prefix, and their number k satisfies 1 <= k <= num_buckets - 1.
C16_SplittersStrictlyIncreasing ==
    [][(stack # <<>> /\ Top.state = "SAMPLE_SORTED") =>
          /\ Len(stack') = Len(stack)
          /\ LET splitters == stack'[Len(stack)].splitters IN
             /\ StrictlyIncreasing(splitters)
             /\ \A i \in 1 .. Len(splitters) : splitters[i] \in SampleValues(buf, Top)
             /\ 1 <= Len(splitters)
             /\ Len(splitters) <= Top.num_buckets - 1]_vars

\* splitters were built with a stride of 2 from a sample with duplicates:
\* fewer splitters than positions visited
C16_Witness ==
    /\ last.op = "sample_sorted"
    /\ stack # <<>>
    /\ Top.step = 2
    /\ Len(Top.splitters) = 1
    /\ comp_(At(buf, Top.begin), At(buf, Top.begin + Top.num_samples - 1))

\* every two elements of the sample prefix of task t are comparator-equal
AllEqualSample(b, t) ==
    \A p \in t.begin .. (t.begin + t.num_samples - 1) :
        \A q \in t.begin .. (t.begin + t.num_samples - 1) :
            ~comp_(At(b, p), At(b, q))

\* C17: when every element of a task's sorted sample prefix is
\* comparator-equal the splitter builder yields zero splitters for that task,
\* and the single bucket equal to the whole range is not pushed again.
C17_AllEqualSampleNotRepushed ==
    [][/\ (stack # <<>> /\ Top.state = "SAMPLE_SORTED" /\ AllEqualSample(buf, Top))
            => Len(stack'[Len(stack)].splitters) = 0
       /\ (stack # <<>> /\ Top.state = "RECURSE")
            => \A i \in PushedAt :
                  ~(stack'[i].begin = Top.begin /\ stack'[i].end = Top.end)]_vars

\* element x meets the condition of bucket j (0-based) of the splitters sp:
\* not (x < s_(j-1)) and x < s_j, the first bucket having no lower and the
\* last no upper splitter
MeetsBucket(x, sp, j) ==
    /\ j > 0 => ~comp_(x, sp[j])
    /\ j < Len(sp) => comp_(x, sp[j + 1])

\* the positions of bucket j (0-based) of task t
BucketPositions(t, j) ==
    (t.begin + t.bucket_starts[j + 1]) .. (t.begin + t.bucket_starts[j + 2] - 1)

\* C19: after a task with splitters s_0 < ... < s_(k-1) is partitioned, its
\* range is split at boundaries 0 = b_0 <= b_1 <= ... <= b_(k+1) = n such
\* that bucket j holds exactly the elements x of the range with
\* not (x < s_(j-1)) and x < s_j; hence no element of a bucket is greater
\* than any element of a later bucket.
C19_BucketsBySplitters ==
    (stack # <<>> /\ Top.state = "RECURSE") =>
        LET t == Top
            k == Len(t.splitters)
            b == t.bucket_starts
        IN /\ Len(b) = k + 2
           /\ b[1] = 0
           /\ b[k + 2] = t.end - t.begin
           /\ \A j \in 1 .. (k + 1) : b[j] <= b[j + 1]
           /\ \A j \in 0 .. k : \A p \in t.begin .. (t.end - 1) :
                 (p \in BucketPositions(t, j)) <=> MeetsBucket(At(buf, p), t.splitters, j)
           /\ \A i \in 0 .. k : \A j \in (i + 1) .. k :
                 \A p \in BucketPositions(t, i) : \A q \in BucketPositions(t, j) :
                     ~comp_(At(buf, q), At(buf, p))

\* the partition by two splitters or more has just left an empty bucket, a
\* bucket that is not sorted yet and a bucket after it
C19_Witness ==
    /\ last.op = "partition"
    /\ stack # <<>>
    /\ Top.state = "RECURSE"
    /\ Len(Top.splitters) >= 2
    /\ \E i \in 0 .. Len(Top.splitters) : BucketPositions(Top, i) = {}
    /\ \E i \in 0 .. Len(Top.splitters) : \E j \in (i + 1) .. Len(Top.splitters) :
          /\ ~NonDecreasing(buf, Top.begin + Top.bucket_starts[i + 1],
                                  Top.begin + Top.bucket_starts[i + 2])
          /\ BucketPositions(Top, j) # {}

\* the buckets (0-based) of task t that hold more than one element
LargeBuckets(t) ==
    {j \in 0 .. (Len(t.bucket_starts) - 2) :
        t.bucket_starts[j + 2] - t.bucket_starts[j + 1] > 1}

\* C20: when a partitioned task is popped, a task in SIMPLE_CASES is pushed
\* for exactly the buckets that hold more than one element, each covering
\* exactly its bucket's positions; empty and single-element buckets are not
\* pushed, and the buckets tile the parent range without gap or overlap.
C20_PushesBucketsAboveOne ==
    [][(stack # <<>> /\ Top.state = "RECURSE") =>
          LET t == Top
              b == t.bucket_starts
          IN /\ \A i \in 1 .. (Len(stack) - 1) : stack'[i] = stack[i]
             /\ Len(stack') = Len(stack) - 1 + Cardinality(LargeBuckets(t))
             /\ {stack'[i] : i \in PushedAt}
                   = {NewTask(t.begin + b[j + 1], t.begin + b[j + 2], "SIMPLE_CASES")
                        : j \in LargeBuckets(t)}
             /\ b[1] = 0
             /\ b[Len(b)] = t.end - t.begin
             /\ \A j \in 1 .. (Len(b) - 1) : b[j] <= b[j + 1]]_vars

\* a popped task has left a pushed bucket on top that starts after the
\* beginning of the range: the positions before it are buckets that were not
\* pushed
C20_Witness ==
    /\ last.op = "recurse"
    /\ stack # <<>>
    /\ Top.state = "SIMPLE_CASES"
    /\ last.begin < Top.begin
    /\ Top.end < last.end

----------------------------------------------------------------------------
(* States of a task *)

SpecStates ==
    {"SIMPLE_CASES", "BASE_CASE", "SAMPLE_SELECT", "SAMPLE_SORTED", "PARTITION"}

\* enum class State
CodeStates ==
    {"SIMPLE_CASES", "BASE_CASE", "SAMPLE_SELECT", "SAMPLE_SORTED", "CLASSIFY",
     "PARTITION", "RECURSE"}

\* the step leaves the dispatched task on top, with its range, in state s
SameTaskIn(s) ==
    /\ Len(stack') = Len(stack)
    /\ Pop(stack') = Pop(stack)
    /\ stack'[Len(stack)].begin = Top.begin
    /\ stack'[Len(stack)].end = Top.end
    /\ stack'[Len(stack)].state = s

\* the step pops the dispatched task and pushes SIMPLE_CASES tasks of its
\* range in its place
PoppedForBuckets ==
    /\ Len(stack') >= Len(stack) - 1
    /\ \A i \in 1 .. (Len(stack) - 1) : stack'[i] = stack[i]
    /\ \A i \in PushedAt :
          /\ stack'[i].state = "SIMPLE_CASES"
          /\ Top.begin <= stack'[i].begin /\ stack'[i].end <= Top.end

----------------------------------------------------------------------------
(* Stability, thresholds, frame, order of the stack *)

\* the position of element e in [begin, end) of b
PositionOf(b, e, begin, end) ==
    CHOOSE p \in begin .. (end - 1) : At(b, p) = e

\* C21: the base-case insertion sort is stable: in a step on a BASE_CASE task
\* of at most base_threshold elements, comparator-equal elements keep their
\* relative order.
C21_InsertionSortStable ==
    [][(stack # <<>> /\ Top.state = "BASE_CASE"
        /\ Top.end - Top.begin <= base_threshold) =>
          LET t == Top IN
          \A p \in t.begin .. (t.end - 1) : \A q \in (p + 1) .. (t.end - 1) :
              (/\ At(buf, p) # At(buf, q)
               /\ ~comp_(At(buf, p), At(buf, q))
               /\ ~comp_(At(buf, q), At(buf, p)))
                  => PositionOf(buf', At(buf, p), t.begin, t.end)
                       < PositionOf(buf', At(buf, q), t.begin, t.end)]_vars

\* the insertion sort has moved an element of a range that holds two
\* distinguishable comparator-equal elements
C21_Witness ==
    /\ last.op = "base_sorted"
    /\ last.end - last.begin = base_threshold
    /\ \E p \in last.begin .. (last.end - 1) : \E q \in (p + 1) .. (last.end - 1) :
          /\ At(buf, p) # At(buf, q)
          /\ ~comp_(At(buf, p), At(buf, q))
          /\ ~comp_(At(buf, q), At(buf, p))
    /\ \E p \in last.begin .. (last.end - 1) : At(buf, p)[2] > p + 1

\* the states of sampling and partitioning: SAMPLE_SELECT and every later
\* state of the same task
SamplingStates ==
    {"SAMPLE_SELECT", "SAMPLE_SORTED", "CLASSIFY", "PARTITION", "RECURSE"}

C22_SamplingOnlyAboveThreshold ==
    \A i \in 1 .. Len(stack) :
        stack[i].state \in SamplingStates
            => stack[i].end - stack[i].begin > base_threshold

C22_ShortTaskStays ==
    (stack # <<>> /\ Top.end - Top.begin <= base_threshold) =>
        \/ Len(stack') = Len(stack) - 1
        \/ /\ Len(stack') = Len(stack)
           /\ stack'[Len(stack)].begin = Top.begin
           /\ stack'[Len(stack)].end = Top.end
           /\ stack'[Len(stack)].state \in {"SIMPLE_CASES", "BASE_CASE"}

\* C22: every task on the stack in SAMPLE_SELECT, SAMPLE_SORTED or a later
\* state of the same task has a range longer than base_threshold; a step on a
\* task of at most base_threshold elements pops it or leaves it in
\* SIMPLE_CASES or BASE_CASE.
C22_SamplingAboveThreshold ==
    /\ C22_SamplingOnlyAboveThreshold
    /\ [][C22_SamplingOnlyAboveThreshold' /\ C22_ShortTaskStays]_vars

\* a task of base_threshold + 1 elements has been partitioned, above a
\* waiting task or a parent
C22_Witness ==
    /\ Len(stack) >= 2
    /\ Top.state = "RECURSE"
    /\ Top.end - Top.begin = base_threshold + 1

\* buffer b2 is buffer b outside the positions [begin, end)
SameOutside(b, b2, begin, end) ==
    /\ Len(b2) = Len(b)
    /\ \A p \in 0 .. (Len(b) - 1) :
          (p < begin \/ end <= p) => At(b2, p) = At(b, p)

\* C23: every step() changes only buffer positions inside the range of the
\* task that was on top when the step began (the sampler's swaps included),
\* and the steps that build splitters, count bucket sizes or pop and push
\* buckets change no buffer element.
C23_StepStaysInRange ==
    [][/\ stack # <<>> => SameOutside(buf, buf', Top.begin, Top.end)
       /\ (stack # <<>> /\ Top.state \in {"SAMPLE_SORTED", "CLASSIFY", "RECURSE"})
             => buf' = buf
       /\ stack = <<>> => buf' = buf]_vars

\* the sampler has swapped elements of a range that ends before the end of
\* the buffer: the first element of its sample is greater than a later one
C23_Witness ==
    /\ last.op = "sample_select"
    /\ last.end < Len(buf)
    /\ \E p \in (last.begin + 1) .. (last.end - 1) :
          comp_(At(buf, p), At(buf, last.begin))
    /\ comp_(At(buf, last.end - 1), At(buf, last.end))

\* C24: buckets are pushed in reverse order, the leftmost on top: for any two
\* tasks on the stack with disjoint ranges, the one nearer the top covers
\* lower buffer positions than the deeper one, and no element of its range is
\* greater than an element of the deeper task's range.
C24_LeftmostOnTop ==
    \A i \in 1 .. Len(stack) : \A j \in (i + 1) .. Len(stack) :
        LET deeper == stack[i]
            upper == stack[j]
        IN DisjointRanges(deeper, upper) =>
              /\ upper.end <= deeper.begin
              /\ \A p \in upper.begin .. (upper.end - 1) :
                    \A q \in deeper.begin .. (deeper.end - 1) :
                        ~comp_(At(buf, q), At(buf, p))

\* two buckets of one task wait on the stack, the upper one not sorted yet
\* and its elements less than the deeper one's
C24_Witness ==
    /\ last.op = "recurse"
    /\ Len(stack) >= 2
    /\ DisjointRanges(stack[Len(stack) - 1], Top)
    /\ last.begin <= Top.begin
    /\ stack[Len(stack) - 1].end <= last.end
    /\ ~NonDecreasing(buf, Top.begin, Top.end)
    /\ comp_(At(buf, Top.begin), At(buf, stack[Len(stack) - 1].begin))

====
